---- MODULE Spec2Model ----
(***************************************************************************)
(* Model of the character extractor of useful_bash_scripts:                *)
(*   character_extractor/extract_characters.py        (vector clusterer)   *)
(*   character_extractor/extract_characters_simple.py (raster labeler)     *)
(* Coordinates are the integer-valued floats of a pixel-art SVG.  Python   *)
(* list indices are 0-based; sequence indices here are 1-based, so the     *)
(* primitive with Python index i is pixels[i+1].                           *)
(***************************************************************************)
EXTENDS Integers, Sequences, FiniteSets, TLC

\* ------------------------------------------------------------------ bounds
\* Largest number of pixel rows (runs of rect elements) in an input document.
MaxRuns == 3
\* Width and height attribute of the input document's root element.
CanvasSize == 100

\* Largest occupancy grid handed to label_connected_components on its own.
MaxRows == 2
MaxCols == 3
\* Number of pixel columns of the images handed to the raster pipeline.
ImageCols == 3

\* ------------------------------------------------------- program constants
\* extract_characters_simple.py:180  lambda p: p < 200
GrayThreshold == 200
\* extract_characters_simple.py:196  if len(x_indices) < 10
MinLabelPixels == 10
\* extract_characters_simple.py:204  padding = 2
RasterPadding == 2
\* extract_characters.py:109  grid_size = 20
GridSize == 20
\* extract_characters.py:103  if len(positions) < 10
MinPrimitiveCount == 10
\* extract_characters.py:143  if len(character_pixels) > 5
MinCharacterPixels == 5
\* extract_characters.py:251 / :297  padding = 1
VectorPadding == 1
\* extract_characters.py:177  threshold = 200
BitmapThreshold == 200
\* extract_characters.py:206  if len(character_pixels) > 10
MinBitmapPixels == 10

VARIABLES
  canvas,            \* width and height of the document (lines 28-29)
  rects,             \* the rect elements found in the document (line 32 / 62)
  pixels,            \* valid (x, y, w, h, fill) tuples (line 75)
  gridKeys,          \* keys of `grid` in insertion order (dict iteration order)
  grid,              \* bucket key -> list of primitive indices (line 110)
  visited,           \* set of visited bucket keys (line 118)
  queue,             \* BFS queue of bucket keys (line 126)
  character_pixels,  \* indices collected for the current component (line 128)
  characters,        \* surviving components, as lists of pixel tuples (line 119)
  components,        \* history: every candidate component, with its fate
  cellIdx,           \* position of `for cell in grid` (line 121)
  saveIdx,           \* position of `for i, character_pixels in enumerate` (149)
  svgFiles,          \* character_<i>.svg files written by save_character
  pngFiles,          \* character_<i>.png files written by save_character_as_png
  binary,            \* thresholded image of the bitmap fallback (line 178)
  bitmapPos,         \* position of its `for y / for x` scan (lines 184-185)
  stdout,            \* messages printed by extract_characters_from_svg
  ret,               \* "running", or the value the call returned
  pc,                \* control position inside the running function
  \* extract_characters_simple.py
  img,               \* the image handed to extract_characters_from_image
  binary_array,      \* thresholded image, (y, x) -> 0 or 1 (line 183)
  labeled_array,     \* (y, x) -> label, 0 = background (line 231)
  current_label,     \* number of components found so far (line 234)
  scanPos,           \* row-major position of the `for y / for x` scan (241)
  label,             \* loop variable of `for label in range(1, n + 1)` (191)
  cropFiles,         \* character_<label>.png files written (line 214)
  rerunOf,           \* <<>>, or the region whose file this run re-segments
  pixelEvents,       \* history: per pixel, how often the labeler marked it
                     \* visited, enqueued it, dequeued it and wrote its label
  \* the pipelines around the temporary bitmaps
  entry,             \* the pipeline function that was called
  embedded,          \* the SVG holds a base64 PNG (simple.py line 28-32)
  cairo,             \* what `import cairosvg` does on this machine
  tempFiles,         \* the temporary bitmaps present in output_dir
  outcome            \* "running", "returned" or "raised"

\* `visited`, `queue`, `stdout`, `ret` and `pc` are locals that both scripts
\* use under the same name; they belong to whichever function is running.
vonly == <<canvas, rects, pixels, gridKeys, grid, character_pixels, characters,
           components, cellIdx, saveIdx, svgFiles, pngFiles, binary,
           bitmapPos>>
ronly == <<img, binary_array, labeled_array, current_label, scanPos, label,
           cropFiles, rerunOf, pixelEvents>>
tonly == <<entry, embedded, cairo, tempFiles, outcome>>
shared == <<visited, queue, stdout, ret, pc>>

vars == <<vonly, ronly, tonly, shared>>

\* ---------------------------------------------------------------- helpers
Min2(a, b) == IF a <= b THEN a ELSE b
Max2(a, b) == IF a >= b THEN a ELSE b
SetMin(S) == CHOOSE m \in S : \A e \in S : m <= e
SetMax(S) == CHOOSE m \in S : \A e \in S : m >= e
Range(s) == {s[i] : i \in 1..Len(s)}

\* Python's int() of a float quotient: truncation toward zero.
IntDiv(a, b) == IF a >= 0 THEN a \div b ELSE -((-a) \div b)

\* ------------------------------------------------------------------ input
\* A document is a sequence of rows of unit pixels; one row starting at
\* (x0, y0) of length n is the rect elements (x0+k, y0, 1, 1), k = 0..n-1.
\* A "bad" element is a rect whose attributes float() cannot convert.
RowStarts == { [x |-> 0,  y |-> 0],  [x |-> 17, y |-> 25],
               [x |-> 45, y |-> 45], [x |-> -5, y |-> 90] }
RowLengths == (MinCharacterPixels - 1)..(MinCharacterPixels + 1)
Palette == {[kind |-> "row", x |-> s.x, y |-> s.y, n |-> n] :
               s \in RowStarts, n \in RowLengths}
           \cup {[kind |-> "bad", x |-> 0, y |-> 0, n |-> 1]}
\* Rows of one document start at different places (pixels do not overlap).
RunSeqs ==
  {rs \in UNION {[1..k -> Palette] : k \in 0..MaxRuns} :
      \A i, j \in 1..Len(rs) :
         (i < j /\ rs[i].kind = "row" /\ rs[j].kind = "row")
            => <<rs[i].x, rs[i].y>> # <<rs[j].x, rs[j].y>>}

RowRects(r) ==
  [k \in 1..r.n |-> [x |-> r.x + (k - 1), y |-> r.y, w |-> 1, h |-> 1,
                     fill |-> "#000000", ok |-> (r.kind = "row")]]

RECURSIVE Expand(_)
Expand(rs) == IF rs = <<>> THEN <<>>
              ELSE RowRects(Head(rs)) \o Expand(Tail(rs))

\* ------------------------------------------ extract_characters_from_svg
\* lines 75-90: the rects whose attributes convert, in document order.
ToPixel(r) ==
  [x |-> r.x, y |-> r.y, w |-> r.w, h |-> r.h,
   fill |-> IF r.fill \in {"", "none"} THEN "#000000" ELSE r.fill]
RECURSIVE ParsePixels(_)
ParsePixels(rs) ==
  IF rs = <<>> THEN <<>>
  ELSE IF Head(rs).ok THEN <<ToPixel(Head(rs))>> \o ParsePixels(Tail(rs))
       ELSE ParsePixels(Tail(rs))

\* lines 113-114
BucketOf(p) == <<IntDiv(p.x, GridSize), IntDiv(p.y, GridSize)>>

\* lines 112-115: keys in the order in which they are first inserted
RECURSIVE InsertionOrder(_, _)
InsertionOrder(ps, keys) ==
  IF ps = <<>> THEN keys
  ELSE InsertionOrder(Tail(ps),
         IF BucketOf(Head(ps)) \in Range(keys) THEN keys
         ELSE Append(keys, BucketOf(Head(ps))))

\* lines 112-115: grid[key] lists the indices of its primitives, ascending
IndicesIn(ps, key) ==
  SelectSeq([i \in 1..Len(ps) |-> i], LAMBDA i : BucketOf(ps[i]) = key)
BuildGrid(ps) ==
  [key \in Range(InsertionOrder(ps, <<>>)) |-> IndicesIn(ps, key)]

\* Faulty variant: the diagonal offsets left out (4-neighbour adjacency).
OffsetsOrthogonal == << <<-1, 0>>, <<0, -1>>, <<0, 0>>, <<0, 1>>, <<1, 0>> >>

\* lines 135-137: the offsets in the order the nested loops produce them
Offsets == << <<-1, -1>>, <<-1, 0>>, <<-1, 1>>, <<0, -1>>, <<0, 0>>,
              <<0, 1>>, <<1, -1>>, <<1, 0>>, <<1, 1>> >>

\* lines 135-140: the neighbours a popped cell adds to the queue, in order
NewNeighbours(current, g, vis) ==
  SelectSeq([k \in 1..Len(Offsets) |->
               <<current[1] + Offsets[k][1], current[2] + Offsets[k][2]>>],
            LAMBDA nb : nb \in DOMAIN g /\ nb \notin vis)

\* Faulty variant: the starting cell is not marked visited.
MarkStartForgotten(cell, vis) == vis

\* line 127: visited.add(cell)
MarkStart(cell, vis) == vis \cup {cell}

\* Faulty variant: off by one in the small-input test.
SkipClusteringInclusive(n) == n <= MinPrimitiveCount

\* line 103
SkipClustering(n) == n < MinPrimitiveCount

\* line 143
EnoughPixels(n) == n > MinCharacterPixels

\* lines 244-258 (save_character): the padded, clipped bounding box
PaddedBox(ps, W, H) ==
  LET min_x == SetMin({ps[i].x : i \in 1..Len(ps)})
      max_x == SetMax({ps[i].x + ps[i].w : i \in 1..Len(ps)})
      min_y == SetMin({ps[i].y : i \in 1..Len(ps)})
      max_y == SetMax({ps[i].y + ps[i].h : i \in 1..Len(ps)})
  IN [min_x |-> Max2(0, min_x - VectorPadding),
      min_y |-> Max2(0, min_y - VectorPadding),
      max_x |-> Min2(W, max_x + VectorPadding),
      max_y |-> Min2(H, max_y + VectorPadding)]

\* lines 257-274: the file save_character writes
SvgFile(ps, index, W, H) ==
  LET b == PaddedBox(ps, W, H)
  IN [index |-> index, box |-> b,
      width |-> b.max_x - b.min_x, height |-> b.max_y - b.min_y,
      rects |-> ps]

\* lines 290-340: the file save_character_as_png writes
PngFile(ps, index, W, H) ==
  LET b == PaddedBox(ps, W, H)
  IN [index |-> index, box |-> b,
      width |-> b.max_x - b.min_x, height |-> b.max_y - b.min_y,
      rects |-> [i \in 1..Len(ps) |->
                   [rect_x |-> ps[i].x - b.min_x, rect_y |-> ps[i].y - b.min_y,
                    rect_w |-> ps[i].w, rect_h |-> ps[i].h]]]

\* The pipeline state while a single function is looked at on its own.
TempIdle ==
  /\ entry = "none"
  /\ embedded = FALSE
  /\ cairo = "ok"
  /\ tempFiles = {}
  /\ outcome = "running"

\* The raster script's state while the vector script runs.
RasterIdle ==
  /\ img = <<>>
  /\ binary_array = <<>>
  /\ labeled_array = <<>>
  /\ pixelEvents = <<>>
  /\ current_label = 0
  /\ scanPos = 0
  /\ label = 0
  /\ cropFiles = <<>>
  /\ rerunOf = <<>>

InitVector ==
  /\ TempIdle
  /\ canvas = [width |-> CanvasSize, height |-> CanvasSize]
  /\ rects \in {Expand(rs) : rs \in RunSeqs}
  /\ pixels = <<>>
  /\ gridKeys = <<>>
  /\ grid = <<>>
  /\ visited = {}
  /\ queue = <<>>
  /\ character_pixels = <<>>
  /\ characters = <<>>
  /\ components = <<>>
  /\ cellIdx = 1
  /\ saveIdx = 1
  /\ svgFiles = <<>>
  /\ pngFiles = <<>>
  /\ binary = <<>>
  /\ bitmapPos = 0
  /\ stdout = <<>>
  /\ ret = "running"
  /\ pc = "parse"
  /\ RasterIdle

\* lines 70-72: no rect element at all: hand over to the bitmap approach
NoRects ==
  /\ pc = "parse"
  /\ rects = <<>>
  /\ pc' = "bitmap"
  /\ stdout' = Append(stdout, "No rectangle elements found")
  /\ UNCHANGED <<binary, bitmapPos>>
  /\ UNCHANGED <<canvas, rects, pixels, gridKeys, grid, visited, queue,
                 character_pixels, characters, components, cellIdx, saveIdx,
                 svgFiles, pngFiles, ret>>
  /\ UNCHANGED <<ronly, tonly>>

\* lines 75-94: rect elements, none of them valid
NoValidPixels ==
  /\ pc = "parse"
  /\ rects # <<>>
  /\ ParsePixels(rects) = <<>>
  /\ pixels' = <<>>
  /\ stdout' = Append(stdout, "No valid pixels found in the SVG.")
  /\ ret' = "None"
  /\ pc' = "done"
  /\ UNCHANGED <<binary, bitmapPos>>
  /\ UNCHANGED <<canvas, rects, gridKeys, grid, visited, queue, character_pixels,
                 characters, components, cellIdx, saveIdx, svgFiles, pngFiles>>
  /\ UNCHANGED <<ronly, tonly>>

\* lines 75-105: fewer than 10 valid pixels: all of them are character 0
TooFewPixels ==
  /\ pc = "parse"
  /\ rects # <<>>
  /\ ParsePixels(rects) # <<>>
  /\ SkipClustering(Len(ParsePixels(rects)))
  /\ pixels' = ParsePixels(rects)
  /\ svgFiles' = Append(svgFiles,
                        SvgFile(pixels', 0, canvas.width, canvas.height))
  /\ stdout' = Append(stdout, "Saved character")
  /\ ret' = "None"
  /\ pc' = "done"
  /\ UNCHANGED <<binary, bitmapPos>>
  /\ UNCHANGED <<canvas, rects, gridKeys, grid, visited, queue, character_pixels,
                 characters, components, cellIdx, saveIdx, pngFiles>>
  /\ UNCHANGED <<ronly, tonly>>

\* lines 75-119: parse, then bucket every primitive
BucketPixels ==
  /\ pc = "parse"
  /\ rects # <<>>
  /\ ParsePixels(rects) # <<>>
  /\ ~SkipClustering(Len(ParsePixels(rects)))
  /\ pixels' = ParsePixels(rects)
  /\ gridKeys' = InsertionOrder(pixels', <<>>)
  /\ grid' = BuildGrid(pixels')
  /\ visited' = {}
  /\ characters' = <<>>
  /\ cellIdx' = 1
  /\ pc' = "cells"
  /\ UNCHANGED <<binary, bitmapPos>>
  /\ UNCHANGED <<canvas, rects, queue, character_pixels, components, saveIdx,
                 svgFiles, pngFiles, stdout, ret>>
  /\ UNCHANGED <<ronly, tonly>>

\* lines 121-123: a cell that an earlier component already reached
SkipVisitedCell ==
  /\ pc = "cells"
  /\ cellIdx <= Len(gridKeys)
  /\ gridKeys[cellIdx] \in visited
  /\ cellIdx' = cellIdx + 1
  /\ UNCHANGED <<binary, bitmapPos>>
  /\ UNCHANGED <<canvas, rects, pixels, gridKeys, grid, visited, queue,
                 character_pixels, characters, components, saveIdx, svgFiles,
                 pngFiles, stdout, ret, pc>>
  /\ UNCHANGED <<ronly, tonly>>

\* lines 121-128: an unvisited cell starts a component
StartComponent ==
  /\ pc = "cells"
  /\ cellIdx <= Len(gridKeys)
  /\ gridKeys[cellIdx] \notin visited
  /\ queue' = <<gridKeys[cellIdx]>>
  /\ visited' = MarkStart(gridKeys[cellIdx], visited)
  /\ character_pixels' = <<>>
  /\ pc' = "bfs"
  /\ UNCHANGED <<binary, bitmapPos>>
  /\ UNCHANGED <<canvas, rects, pixels, gridKeys, grid, characters, components,
                 cellIdx, saveIdx, svgFiles, pngFiles, stdout, ret>>
  /\ UNCHANGED <<ronly, tonly>>

\* lines 130-140: one iteration of `while queue`
BfsStep ==
  /\ pc = "bfs"
  /\ queue # <<>>
  /\ LET current == Head(queue)
         new == NewNeighbours(current, grid, visited)
     IN /\ character_pixels' = character_pixels \o grid[current]
        /\ visited' = visited \cup Range(new)
        /\ queue' = Tail(queue) \o new
  /\ UNCHANGED <<binary, bitmapPos>>
  /\ UNCHANGED <<canvas, rects, pixels, gridKeys, grid, characters, components,
                 cellIdx, saveIdx, svgFiles, pngFiles, stdout, ret, pc>>
  /\ UNCHANGED <<ronly, tonly>>

\* lines 142-144: the queue ran empty: keep or drop the component
FinishComponent ==
  /\ pc = "bfs"
  /\ queue = <<>>
  /\ characters' =
       IF EnoughPixels(Len(character_pixels))
       THEN Append(characters,
                   [k \in 1..Len(character_pixels) |->
                      pixels[character_pixels[k]]])
       ELSE characters
  /\ components' = Append(components,
                          [idx |-> character_pixels,
                           kept |-> EnoughPixels(Len(character_pixels))])
  /\ cellIdx' = cellIdx + 1
  /\ pc' = "cells"
  /\ UNCHANGED <<binary, bitmapPos>>
  /\ UNCHANGED <<canvas, rects, pixels, gridKeys, grid, visited, queue,
                 character_pixels, saveIdx, svgFiles, pngFiles, stdout, ret>>
  /\ UNCHANGED <<ronly, tonly>>

\* line 146: every cell was looked at
ClusteringDone ==
  /\ pc = "cells"
  /\ cellIdx > Len(gridKeys)
  /\ stdout' = Append(stdout, "Found characters")
  /\ saveIdx' = 1
  /\ pc' = "save"
  /\ UNCHANGED <<binary, bitmapPos>>
  /\ UNCHANGED <<canvas, rects, pixels, gridKeys, grid, visited, queue,
                 character_pixels, characters, components, cellIdx, svgFiles,
                 pngFiles, ret>>
  /\ UNCHANGED <<ronly, tonly>>

\* lines 149-152: one iteration of the saving loop (index i = saveIdx - 1)
SaveCharacter ==
  /\ pc = "save"
  /\ saveIdx <= Len(characters)
  /\ svgFiles' = Append(svgFiles, SvgFile(characters[saveIdx], saveIdx - 1,
                                          canvas.width, canvas.height))
  /\ pngFiles' = Append(pngFiles, PngFile(characters[saveIdx], saveIdx - 1,
                                          canvas.width, canvas.height))
  /\ saveIdx' = saveIdx + 1
  /\ UNCHANGED <<binary, bitmapPos>>
  /\ UNCHANGED <<canvas, rects, pixels, gridKeys, grid, visited, queue,
                 character_pixels, characters, components, cellIdx, stdout,
                 ret, pc>>
  /\ UNCHANGED <<ronly, tonly>>

\* line 152, end of the function: implicit return None
ReturnFromSvg ==
  /\ pc = "save"
  /\ saveIdx > Len(characters)
  /\ ret' = "None"
  /\ pc' = "done"
  /\ UNCHANGED <<binary, bitmapPos>>
  /\ UNCHANGED <<canvas, rects, pixels, gridKeys, grid, visited, queue,
                 character_pixels, characters, components, cellIdx, saveIdx,
                 svgFiles, pngFiles, stdout>>
  /\ UNCHANGED <<ronly, tonly>>

NextVector ==
  \/ NoRects
  \/ NoValidPixels
  \/ TooFewPixels
  \/ BucketPixels
  \/ SkipVisitedCell
  \/ StartComponent
  \/ BfsStep
  \/ FinishComponent
  \/ ClusteringDone
  \/ SaveCharacter
  \/ ReturnFromSvg

SpecVector == InitVector /\ [][NextVector]_vars

\* extract_characters_from_svg called again, on one character_<i>.svg the
\* first run wrote (its rect elements keep their source coordinates, its
\* width and height are those of the padded box) and with an empty output
\* directory; rerunOf remembers the primitives of the region.
RerunOnSvg ==
  /\ pc = "done"
  /\ rerunOf = <<>>
  /\ \E f \in 1..Len(svgFiles) :
        /\ canvas' = [width |-> svgFiles[f].width,
                      height |-> svgFiles[f].height]
        /\ rects' = [k \in 1..Len(svgFiles[f].rects) |->
                       [x |-> svgFiles[f].rects[k].x,
                        y |-> svgFiles[f].rects[k].y,
                        w |-> svgFiles[f].rects[k].w,
                        h |-> svgFiles[f].rects[k].h,
                        fill |-> svgFiles[f].rects[k].fill, ok |-> TRUE]]
        /\ rerunOf' = <<[members |-> Range(svgFiles[f].rects)]>>
  /\ pixels' = <<>>
  /\ gridKeys' = <<>>
  /\ grid' = <<>>
  /\ visited' = {}
  /\ queue' = <<>>
  /\ character_pixels' = <<>>
  /\ characters' = <<>>
  /\ components' = <<>>
  /\ cellIdx' = 1
  /\ saveIdx' = 1
  /\ svgFiles' = <<>>
  /\ pngFiles' = <<>>
  /\ stdout' = <<>>
  /\ ret' = "running"
  /\ pc' = "parse"
  /\ UNCHANGED pixelEvents
  /\ UNCHANGED <<img, binary_array, labeled_array, current_label, scanPos,
                 label, cropFiles, binary, bitmapPos>>
  /\ UNCHANGED tonly

NextVectorRerun == NextVector \/ RerunOnSvg

SpecVectorRerun == InitVector /\ [][NextVectorRerun]_vars

\* ------------------------------------------------- vector clusterer claims
\* The bucket BFS loop has finished (the small-input path never builds a grid).
Clustered == pc \in {"save", "done"} /\ gridKeys # <<>>

\* The places (component, position) at which primitive index i was collected.
PlacesOf(i) ==
  {<<c, k>> \in (1..Len(components)) \X (1..Len(pixels) + 1) :
      k <= Len(components[c].idx) /\ components[c].idx[k] = i}

KeptComponents == SelectSeq(components, LAMBDA c : c.kept)

\* C1: after the bucket BFS loop every primitive index occurs in exactly one
\* candidate component, exactly once, no component holds anything else, and
\* the surviving regions are exactly the kept components: regions are
\* pairwise disjoint and, with the discarded components, cover every primitive.
C1_Partition ==
  Clustered =>
    /\ \A c \in 1..Len(components) :
          Len(components[c].idx) <= Len(pixels)
          /\ Range(components[c].idx) \subseteq 1..Len(pixels)
    /\ \A i \in 1..Len(pixels) : Cardinality(PlacesOf(i)) = 1
    /\ Len(characters) = Len(KeptComponents)
    /\ \A r \in 1..Len(characters) :
          characters[r] = [k \in 1..Len(KeptComponents[r].idx) |->
                             pixels[KeptComponents[r].idx[k]]]

C1_Witness ==
  /\ Clustered
  /\ \E c, d \in 1..Len(components) : components[c].kept /\ ~components[d].kept
  /\ Len(characters) >= 2

\* Bucket adjacency of the specification: at most 1 apart in bx and in by.
Adjacent(a, b) ==
  /\ a[1] - b[1] \in {-1, 0, 1}
  /\ a[2] - b[2] \in {-1, 0, 1}

NonEmptyBuckets == {BucketOf(pixels[i]) : i \in 1..Len(pixels)}

RECURSIVE Reachable(_, _)
Reachable(S, K) ==
  LET N == S \cup {b \in K : \E a \in S : Adjacent(a, b)}
  IN IF N = S THEN S ELSE Reachable(N, K)

\* The buckets whose primitives component c collected.
BucketsOf(c) == {BucketOf(pixels[i]) : i \in Range(components[c].idx)}

\* C3: two primitives are in the same candidate component exactly when their
\* buckets are connected in the 8-neighbour graph of the non-empty buckets:
\* every non-empty bucket is visited and belongs to exactly one component, the
\* buckets of a component are one whole connectivity class of that graph, and
\* a component holds all primitives of its buckets.
C3_BucketComponents ==
  Clustered =>
    /\ visited = NonEmptyBuckets
    /\ \A a \in NonEmptyBuckets :
          Cardinality({c \in 1..Len(components) : a \in BucketsOf(c)}) = 1
    /\ \A c \in 1..Len(components) :
          /\ BucketsOf(c) # {}
          /\ \A a \in BucketsOf(c) :
                BucketsOf(c) = Reachable({a}, NonEmptyBuckets)
          /\ Range(components[c].idx) =
                {i \in 1..Len(pixels) : BucketOf(pixels[i]) \in BucketsOf(c)}

\* a component held together by a diagonal step only, beside another component
C3_Witness ==
  /\ Clustered
  /\ Len(components) >= 2
  /\ \E c \in 1..Len(components) : \E a \in BucketsOf(c) :
        /\ <<a[1] + 1, a[2] + 1>> \in BucketsOf(c)
        /\ <<a[1] + 1, a[2]>> \notin NonEmptyBuckets
        /\ <<a[1], a[2] + 1>> \notin NonEmptyBuckets

\* C4: a candidate component is kept exactly when it has at least t elements
\* (size >= t): one of exactly t is kept, one of t - 1 is dropped.  Stated here
\* for the vector clusterer, t = 5 primitives; the raster labeler's half,
\* t = 10 pixels, is RasterThresholdBoundary.
C4_VectorThresholdBoundary ==
  \A c \in 1..Len(components) :
     components[c].kept <=> Len(components[c].idx) >= MinCharacterPixels

\* The padded box lies inside the canvas and is not inverted.
BoxInsideCanvas(b) ==
  /\ 0 <= b.min_x /\ b.min_x <= b.max_x /\ b.max_x <= canvas.width
  /\ 0 <= b.min_y /\ b.min_y <= b.max_y /\ b.max_y <= canvas.height

\* C6: for every file the encoder writes, the padded box lies inside the
\* canvas and is not inverted, every member rectangle lies inside the padded
\* box, and no member has a negative local coordinate.
C6_PaddedBoxContainsMembers ==
  /\ \A f \in 1..Len(svgFiles) :
        /\ BoxInsideCanvas(svgFiles[f].box)
        /\ \A r \in 1..Len(svgFiles[f].rects) :
              LET p == svgFiles[f].rects[r]
                  b == svgFiles[f].box
              IN /\ b.min_x <= p.x /\ p.x + p.w <= b.max_x
                 /\ b.min_y <= p.y /\ p.y + p.h <= b.max_y
                 /\ p.x - b.min_x >= 0 /\ p.y - b.min_y >= 0
  /\ \A f \in 1..Len(pngFiles) :
        /\ BoxInsideCanvas(pngFiles[f].box)
        /\ \A r \in 1..Len(pngFiles[f].rects) :
              /\ pngFiles[f].rects[r].rect_x >= 0
              /\ pngFiles[f].rects[r].rect_y >= 0

\* C7: with 1 <= n < 10 valid primitives no clustering and no filtering takes
\* place and exactly one region, index 0, holding all n primitives is written;
\* with n >= 10 the bucket clustering has run over every bucket.
C7_SmallInput ==
  /\ (pc = "done" /\ Len(pixels) >= 1 /\ Len(pixels) < MinPrimitiveCount) =>
        /\ gridKeys = <<>> /\ visited = {} /\ components = <<>>
        /\ Len(svgFiles) = 1
        /\ svgFiles[1].index = 0
        /\ svgFiles[1].rects = pixels
  /\ (pc = "done" /\ Len(pixels) >= MinPrimitiveCount) =>
        /\ gridKeys # <<>>
        /\ components # <<>>
        /\ visited = NonEmptyBuckets

\* fewer than 10 primitives in buckets that are not adjacent, one region
C7_Witness ==
  /\ pc = "done"
  /\ Len(pixels) < MinPrimitiveCount
  /\ \E i, j \in 1..Len(pixels) :
        ~Adjacent(BucketOf(pixels[i]), BucketOf(pixels[j]))
  /\ Len(svgFiles) = 1
  /\ svgFiles[1].rects = pixels

\* The vector half of re-segmentation: the second run on the primitives of one
\* written region ends with exactly one region, holding all of them.
VectorResegmentation ==
  (pc = "done" /\ rerunOf # <<>>) =>
     /\ Len(svgFiles) = 1
     /\ Range(svgFiles[1].rects) = rerunOf[1].members
     /\ Len(svgFiles[1].rects) = Cardinality(rerunOf[1].members)

\* What the caller sees of the run that found no valid primitive (line 94).
ReturnOfNoValidPixels == "None"

\* C10: a run whose every candidate component was dropped as noise ends in a
\* result the caller can tell from that of a run without valid primitives.
C10_ZeroRegionOutcomesDiffer ==
  (pc = "done" /\ gridKeys # <<>> /\ characters = <<>>)
     => ret # ReturnOfNoValidPixels

\* the run without valid primitives does end in ReturnOfNoValidPixels
NoValidPixelsOutcome ==
  (pc = "done" /\ rects # <<>> /\ pixels = <<>>) => ret = ReturnOfNoValidPixels

\* floor(a / g) for g > 0 (the quotient of Integers rounds down)
Floor(a, g) == a \div g

\* C12: every primitive with origin (x, y) lies in the bucket
\* (floor(x/g), floor(y/g)), g = GridSize, negative coordinates included, so
\* that a bucket is a half-open g x g cell and two primitives of one bucket
\* differ by less than g in each coordinate.
C12_FloorBucketKey ==
  \A key \in DOMAIN grid :
     \A i, j \in Range(grid[key]) :
        /\ key = <<Floor(pixels[i].x, GridSize), Floor(pixels[i].y, GridSize)>>
        /\ pixels[i].x - pixels[j].x < GridSize
        /\ pixels[i].y - pixels[j].y < GridSize

\* ================================================ extract_characters_simple
\* The pixel coordinates (y, x) of an array of the given shape.
Coords(h, w) == (0..(h - 1)) \X (0..(w - 1))

\* The shape of an array, recovered from its index set (line 230).
Height(a) == IF DOMAIN a = {} THEN 0 ELSE 1 + SetMax({p[1] : p \in DOMAIN a})
Width(a) == IF DOMAIN a = {} THEN 0 ELSE 1 + SetMax({p[2] : p \in DOMAIN a})

\* Faulty variant: the scan runs column by column.
ColumnMajorIndex(y, x, h, w) == x * h + y

\* lines 241-242: the position of (y, x) in `for y ...: for x ...:`
ScanIndex(y, x, h, w) == y * w + x

\* Faulty variant: the test `(y, x) not in visited` of line 243 left out, so
\* the scan starts a component at pixels that already have a label.
SeedCandidatesRevisiting(bin, vis, from) ==
  {p \in DOMAIN bin :
      /\ ScanIndex(p[1], p[2], Height(bin), Width(bin)) >= from
      /\ bin[p] > 0}

\* lines 241-243: the pixels at or after position `from` that start a component
SeedCandidates(bin, vis, from) ==
  {p \in DOMAIN bin :
      /\ ScanIndex(p[1], p[2], Height(bin), Width(bin)) >= from
      /\ bin[p] > 0
      /\ p \notin vis}

\* lines 241-243: the first of them the scan meets
NextSeed(bin, vis, from) ==
  CHOOSE p \in SeedCandidates(bin, vis, from) :
     \A q \in SeedCandidates(bin, vis, from) :
        ScanIndex(p[1], p[2], Height(bin), Width(bin))
          <= ScanIndex(q[1], q[2], Height(bin), Width(bin))

\* Faulty variant: 4-connectivity, the diagonal directions left out.
DirectionsOrthogonal == << <<-1, 0>>, <<0, -1>>, <<0, 1>>, <<1, 0>> >>

\* line 238
Directions == << <<-1, -1>>, <<-1, 0>>, <<-1, 1>>, <<0, -1>>,
                 <<0, 1>>, <<1, -1>>, <<1, 0>>, <<1, 1>> >>

\* Faulty variant: the test `binary_array[ny, nx] > 0` of line 259 left out,
\* so the flood runs over background pixels too.
NewPixelsAnyPixel(c, bin, vis) ==
  SelectSeq([k \in 1..Len(Directions) |->
               <<c[1] + Directions[k][1], c[2] + Directions[k][2]>>],
            LAMBDA n : n \in DOMAIN bin /\ n \notin vis)

\* lines 256-263: the neighbours of (cy, cx) that are marked, labeled and
\* queued, in the order of `directions`
NewPixels(c, bin, vis) ==
  SelectSeq([k \in 1..Len(Directions) |->
               <<c[1] + Directions[k][1], c[2] + Directions[k][2]>>],
            LAMBDA n : n \in DOMAIN bin /\ bin[n] > 0 /\ n \notin vis)

\* The history of a run of the labeler: nothing has happened to any pixel
\* (lines 231-235); pixels are marked visited, labeled and enqueued (lines
\* 246-250 for a seed, 261-263 for a neighbour); a pixel is dequeued (line
\* 253).
NoEvents(bin) ==
  [p \in DOMAIN bin |->
     [marked |-> 0, enqueued |-> 0, dequeued |-> 0, written |-> 0]]
Occurrences(s, p) == Cardinality({k \in 1..Len(s) : s[k] = p})
Entered(ev, new) ==
  [p \in DOMAIN ev |->
     [ev[p] EXCEPT !.marked = @ + Occurrences(new, p),
                   !.enqueued = @ + Occurrences(new, p),
                   !.written = @ + Occurrences(new, p)]]
Left(ev, c) == [ev EXCEPT ![c].dequeued = @ + 1]

\* lines 229-235: the labeler's state on entry
StartLabeling(bin) ==
  /\ binary_array' = bin
  /\ labeled_array' = [p \in DOMAIN bin |-> 0]
  /\ pixelEvents' = NoEvents(bin)
  /\ current_label' = 0
  /\ visited' = {}
  /\ queue' = <<>>
  /\ scanPos' = 0
  /\ pc' = "scan"

\* label_connected_components called on an occupancy grid of its own
InitRaster ==
  /\ TempIdle
  /\ \E h \in 1..MaxRows, w \in 1..MaxCols :
        binary_array \in [Coords(h, w) -> {0, 1}]
  /\ labeled_array = [p \in DOMAIN binary_array |-> 0]
  /\ pixelEvents = NoEvents(binary_array)
  /\ current_label = 0
  /\ visited = {}
  /\ queue = <<>>
  /\ scanPos = 0
  /\ pc = "scan"
  /\ img = <<>>
  /\ label = 0
  /\ cropFiles = <<>>
  /\ rerunOf = <<>>
  /\ stdout = <<>>
  /\ ret = "running"
  /\ canvas = <<>> /\ rects = <<>> /\ pixels = <<>> /\ gridKeys = <<>> /\ grid = <<>>
  /\ character_pixels = <<>> /\ characters = <<>> /\ components = <<>>
  /\ cellIdx = 1 /\ saveIdx = 1 /\ svgFiles = <<>> /\ pngFiles = <<>>
  /\ binary = <<>> /\ bitmapPos = 0

\* lines 241-250: the scan reaches an unvisited foreground pixel
SeedComponent ==
  /\ pc = "scan"
  /\ SeedCandidates(binary_array, visited, scanPos) # {}
  /\ LET p == NextSeed(binary_array, visited, scanPos)
     IN /\ current_label' = current_label + 1
        /\ queue' = <<p>>
        /\ visited' = visited \cup {p}
        /\ labeled_array' = [labeled_array EXCEPT ![p] = current_label + 1]
        /\ pixelEvents' = Entered(pixelEvents, <<p>>)
        /\ scanPos' = ScanIndex(p[1], p[2], Height(binary_array),
                                Width(binary_array)) + 1
  /\ pc' = "flood"
  /\ UNCHANGED <<img, binary_array, label, cropFiles, rerunOf, stdout, ret>>
  /\ UNCHANGED <<vonly, tonly>>

\* lines 252-263: one iteration of `while queue`
FloodStep ==
  /\ pc = "flood"
  /\ queue # <<>>
  /\ LET new == NewPixels(Head(queue), binary_array, visited)
     IN /\ visited' = visited \cup Range(new)
        /\ labeled_array' = [p \in DOMAIN labeled_array |->
                               IF p \in Range(new) THEN current_label
                               ELSE labeled_array[p]]
        /\ queue' = Tail(queue) \o new
        /\ pixelEvents' = Entered(Left(pixelEvents, Head(queue)), new)
  /\ UNCHANGED <<img, binary_array, current_label, scanPos, label, cropFiles,
                 rerunOf, stdout, ret, pc>>
  /\ UNCHANGED <<vonly, tonly>>

\* line 252: the queue ran empty, the scan goes on
FloodDone ==
  /\ pc = "flood"
  /\ queue = <<>>
  /\ pc' = "scan"
  /\ UNCHANGED <<visited, queue, stdout, ret>>
  /\ UNCHANGED <<ronly, vonly, tonly>>

\* line 265: the scan is over, return labeled_array, current_label
ReturnLabels ==
  /\ pc = "scan"
  /\ SeedCandidates(binary_array, visited, scanPos) = {}
  /\ scanPos' = Height(binary_array) * Width(binary_array)
  /\ pc' = "labeled"
  /\ UNCHANGED pixelEvents
  /\ UNCHANGED <<img, binary_array, labeled_array, current_label, label,
                 cropFiles, rerunOf, visited, queue, stdout, ret>>
  /\ UNCHANGED <<vonly, tonly>>

NextRaster ==
  \/ SeedComponent
  \/ FloodStep
  \/ FloodDone
  \/ ReturnLabels

SpecRaster == InitRaster /\ [][NextRaster]_vars

\* ---------------------------------------------------- raster labeler claims
Foreground == {p \in DOMAIN binary_array : binary_array[p] > 0}

\* 8-neighbours: distinct pixels at most one row and one column apart.
Touching(p, q) ==
  /\ p # q
  /\ p[1] - q[1] \in {-1, 0, 1}
  /\ p[2] - q[2] \in {-1, 0, 1}

RECURSIVE Flood(_, _)
Flood(S, F) ==
  LET N == S \cup {q \in F : \E p \in S : Touching(p, q)}
  IN IF N = S THEN S ELSE Flood(N, F)

\* the maximal 8-connected set of foreground pixels around p
ComponentOf(p) == Flood({p}, Foreground)

\* C2: two foreground pixels carry the same label exactly when a path of
\* foreground pixels, each an 8-neighbour of the next, joins them; background
\* pixels keep label 0.
C2_EightConnectedLabels ==
  pc = "labeled" =>
    /\ \A p \in Foreground : labeled_array[p] > 0
    /\ \A p \in DOMAIN binary_array \ Foreground : labeled_array[p] = 0
    /\ \A p, q \in Foreground :
          labeled_array[p] = labeled_array[q] <=> q \in ComponentOf(p)

\* two foreground pixels that touch only diagonally, in one region of size 2
C2_Witness ==
  /\ pc = "labeled"
  /\ \E p, q \in Foreground :
        /\ q = <<p[1] + 1, p[2] + 1>>
        /\ binary_array[<<p[1] + 1, p[2]>>] = 0
        /\ binary_array[<<p[1], p[2] + 1>>] = 0
        /\ labeled_array[p] = labeled_array[q]
        /\ {r \in Foreground : labeled_array[r] = labeled_array[p]} = {p, q}

\* Row-major order of the pixels, stated on the coordinates.
Precedes(p, q) == p[1] < q[1] \/ (p[1] = q[1] /\ p[2] < q[2])
FirstOf(S) == CHOOSE p \in S : \A q \in S \ {p} : Precedes(p, q)
Labeled(k) == {p \in DOMAIN labeled_array : labeled_array[p] = k}

\* C5: labels follow the row-major discovery order: for labels j < k the first
\* pixel of component j precedes the first pixel of component k, label 1 holds
\* the first foreground pixel, and the label map and the component count are
\* the ones the grid alone determines (so two runs agree): a pixel's label is
\* the rank of its component among the components ordered by first pixel.
C5_RowMajorLabels ==
  pc = "labeled" =>
    LET first == [p \in Foreground |-> FirstOf(ComponentOf(p))]
        firsts == {first[p] : p \in Foreground}
        rank == [p \in Foreground |->
                   Cardinality({f \in firsts :
                                  f = first[p] \/ Precedes(f, first[p])})]
    IN /\ \A j, k \in 1..current_label :
             j < k => /\ Labeled(j) # {} /\ Labeled(k) # {}
                      /\ Precedes(FirstOf(Labeled(j)), FirstOf(Labeled(k)))
       /\ Foreground # {} => labeled_array[FirstOf(Foreground)] = 1
       /\ \A p \in DOMAIN binary_array :
             labeled_array[p] = IF binary_array[p] > 0 THEN rank[p] ELSE 0
       /\ current_label = Cardinality(firsts)

\* three components whose first pixels are met in the order of their labels,
\* the second one lying left of the first
C5_Witness ==
  /\ pc = "labeled"
  /\ current_label >= 2
  /\ FirstOf(Labeled(2))[2] < FirstOf(Labeled(1))[2]

\* C11: the value label_connected_components returns is a well-formed label
\* map: labeled_array has the shape of binary_array, an entry is 0 exactly
\* when the pixel is background and is otherwise an integer of
\* 1..num_features, every label of 1..num_features is carried by at least one
\* pixel, and num_features is the number of distinct non-zero labels.
C11_LabelMapWellFormed ==
  pc = "labeled" =>
    /\ DOMAIN labeled_array = DOMAIN binary_array
    /\ \A p \in DOMAIN labeled_array :
          /\ labeled_array[p] = 0 <=> binary_array[p] = 0
          /\ labeled_array[p] # 0 => labeled_array[p] \in 1..current_label
    /\ \A k \in 1..current_label : Labeled(k) # {}
    /\ current_label =
         Cardinality({labeled_array[p] : p \in DOMAIN labeled_array} \ {0})

\* a returned map with two labels and a background pixel
C11_Witness ==
  /\ pc = "labeled"
  /\ current_label = 2
  /\ Labeled(0) # {}
  /\ Labeled(1) # {}
  /\ Labeled(2) # {}

\* A bound on the number of steps the labeler still takes: three for every
\* foreground pixel not yet visited, one for every queued pixel, one for the
\* flood in progress and one for the return.
StepsLeft ==
  3 * Cardinality(Foreground \ visited) + Len(queue)
    + (IF pc = "flood" THEN 1 ELSE 0) + (IF pc = "labeled" THEN 0 ELSE 1)
\* The labeler stops only by returning: before that, one of the conditions
\* under which SeedComponent, FloodStep, FloodDone and ReturnLabels act holds.
CanStep ==
  \/ pc = "scan" /\ SeedCandidates(binary_array, visited, scanPos) # {}
  \/ pc = "flood" /\ queue # <<>>
  \/ pc = "flood" /\ queue = <<>>
  \/ pc = "scan" /\ SeedCandidates(binary_array, visited, scanPos) = {}
StopsOnlyOnReturn == pc # "labeled" => CanStep

\* At every moment no pixel was marked visited, enqueued or labeled twice, no
\* pixel was dequeued more often than enqueued, and nothing has happened to a
\* background pixel; on return every foreground pixel was marked, enqueued,
\* dequeued and labeled once.
VisitedOnce ==
  \A p \in DOMAIN binary_array :
     /\ pixelEvents[p].marked <= 1
     /\ pixelEvents[p].enqueued <= 1
     /\ pixelEvents[p].dequeued <= pixelEvents[p].enqueued
     /\ pixelEvents[p].written <= 1
     /\ binary_array[p] = 0 =>
           /\ pixelEvents[p] = NoEvents(binary_array)[p]
           /\ labeled_array[p] = 0
           /\ p \notin visited
           /\ p \notin Range(queue)
     /\ (pc = "labeled" /\ binary_array[p] > 0) =>
           /\ pixelEvents[p] =
                [marked |-> 1, enqueued |-> 1, dequeued |-> 1, written |-> 1]
           /\ p \in visited
\* A label, once written, stays.
LabelsKept ==
  \A p \in DOMAIN labeled_array :
     labeled_array[p] # 0 => labeled_array'[p] = labeled_array[p]

\* C14: on every finite grid label_connected_components terminates; every
\* foreground pixel is added to the visited set, enqueued and dequeued
\* exactly once over the run, its label is written exactly once and never
\* changed afterwards, and no background pixel is ever enqueued or labeled.
\* Termination is stated by a variant: every step lowers StepsLeft, a natural
\* number, and before the return a step is always possible, so every run
\* returns after at most StepsLeft steps.
C14_TerminatesVisitingOnce ==
  /\ [](VisitedOnce /\ StopsOnlyOnReturn /\ StepsLeft \in Nat)
  /\ [][LabelsKept /\ StepsLeft' < StepsLeft]_vars

\* a finished run over a grid with two components and a background pixel,
\* where every foreground pixel went through the queue once
C14_Witness ==
  /\ pc = "labeled"
  /\ queue = <<>>
  /\ current_label >= 2
  /\ Cardinality(Foreground) >= 3
  /\ Foreground # DOMAIN binary_array
  /\ \A p \in Foreground : pixelEvents[p].dequeued = 1

\* ============================================ extract_characters_from_image
\* The images handed to the pipeline: MinLabelPixels rows, ImageCols columns,
\* every column a dark bar hanging from the top edge, of height 0, t - 1 or
\* t (t = MinLabelPixels), on a white ground.
BarHeights == {0, MinLabelPixels - 1, MinLabelPixels}
BarImage(hs) ==
  [width |-> ImageCols, height |-> MinLabelPixels,
   gray |-> [p \in Coords(MinLabelPixels, ImageCols) |->
               IF p[1] < hs[p[2] + 1] THEN 0 ELSE 255]]
BarImages == {BarImage(hs) : hs \in [1..ImageCols -> BarHeights]}

\* lines 176-183: grayscale, then 1 where the pixel is darker than 200
Binarize(im) ==
  [p \in DOMAIN im.gray |-> IF im.gray[p] < GrayThreshold THEN 1 ELSE 0]

\* line 196: too few pixels, skipped as noise
TooFewLabelPixels(n) == n < MinLabelPixels

\* lines 193-208: the padded bounding box of the pixels carrying label k
CropBox(k, lab, im) ==
  LET x_indices == {p[2] : p \in {q \in DOMAIN lab : lab[q] = k}}
      y_indices == {p[1] : p \in {q \in DOMAIN lab : lab[q] = k}}
  IN [min_x |-> Max2(0, SetMin(x_indices) - RasterPadding),
      min_y |-> Max2(0, SetMin(y_indices) - RasterPadding),
      max_x |-> Min2(im.width - 1, SetMax(x_indices) + RasterPadding),
      max_y |-> Min2(im.height - 1, SetMax(y_indices) + RasterPadding)]

\* line 211: img.crop((min_x, min_y, max_x + 1, max_y + 1))
Crop(im, b) ==
  [width |-> b.max_x + 1 - b.min_x, height |-> b.max_y + 1 - b.min_y,
   gray |-> [p \in Coords(b.max_y + 1 - b.min_y, b.max_x + 1 - b.min_x) |->
               im.gray[<<p[1] + b.min_y, p[2] + b.min_x>>]]]

InitImage ==
  /\ TempIdle
  /\ img \in BarImages
  /\ binary_array = <<>>
  /\ labeled_array = <<>>
  /\ pixelEvents = <<>>
  /\ current_label = 0
  /\ visited = {}
  /\ queue = <<>>
  /\ scanPos = 0
  /\ label = 0
  /\ cropFiles = <<>>
  /\ rerunOf = <<>>
  /\ stdout = <<>>
  /\ ret = "running"
  /\ pc = "image"
  /\ canvas = <<>> /\ rects = <<>> /\ pixels = <<>> /\ gridKeys = <<>> /\ grid = <<>>
  /\ character_pixels = <<>> /\ characters = <<>> /\ components = <<>>
  /\ cellIdx = 1 /\ saveIdx = 1 /\ svgFiles = <<>> /\ pngFiles = <<>>
  /\ binary = <<>> /\ bitmapPos = 0

\* lines 175-186: threshold the image and call label_connected_components
BinarizeImage ==
  /\ pc = "image"
  /\ StartLabeling(Binarize(img))
  /\ UNCHANGED <<img, label, cropFiles, rerunOf, stdout, ret>>
  /\ UNCHANGED <<vonly, tonly>>

\* lines 186-191: the labeler returned; the loop over the labels starts
BeginExtract ==
  /\ pc = "labeled"
  /\ stdout' = Append(stdout, "Found potential characters")
  /\ label' = 1
  /\ pc' = "extract"
  /\ UNCHANGED pixelEvents
  /\ UNCHANGED <<img, binary_array, labeled_array, current_label, scanPos,
                 cropFiles, rerunOf, visited, queue, ret>>
  /\ UNCHANGED <<vonly, tonly>>

\* lines 191-197: a label with too few pixels is skipped
SkipNoise ==
  /\ pc = "extract"
  /\ label <= current_label
  /\ TooFewLabelPixels(Cardinality({p \in DOMAIN labeled_array :
                                      labeled_array[p] = label}))
  /\ label' = label + 1
  /\ UNCHANGED pixelEvents
  /\ UNCHANGED <<img, binary_array, labeled_array, current_label, scanPos,
                 cropFiles, rerunOf, visited, queue, stdout, ret, pc>>
  /\ UNCHANGED <<vonly, tonly>>

\* lines 191-215: the padded crop of a label is saved as character_<label>.png
SaveCrop ==
  /\ pc = "extract"
  /\ label <= current_label
  /\ ~TooFewLabelPixels(Cardinality({p \in DOMAIN labeled_array :
                                       labeled_array[p] = label}))
  /\ LET b == CropBox(label, labeled_array, img)
     IN cropFiles' = Append(cropFiles,
                            [label |-> label, box |-> b, img |-> Crop(img, b)])
  /\ stdout' = Append(stdout, "Saved character")
  /\ label' = label + 1
  /\ UNCHANGED pixelEvents
  /\ UNCHANGED <<img, binary_array, labeled_array, current_label, scanPos,
                 rerunOf, visited, queue, ret, pc>>
  /\ UNCHANGED <<vonly, tonly>>

\* line 215, end of the loop: implicit return None
ReturnFromImage ==
  /\ pc = "extract"
  /\ label > current_label
  /\ ret' = "None"
  /\ pc' = "done"
  /\ UNCHANGED pixelEvents
  /\ UNCHANGED <<img, binary_array, labeled_array, current_label, scanPos,
                 label, cropFiles, rerunOf, visited, queue, stdout>>
  /\ UNCHANGED <<vonly, tonly>>

\* extract_characters_from_image called again, on one of the files the first
\* run wrote and with an empty output directory; rerunOf remembers where the
\* pixels of the region lie in that file.
RerunOnCrop ==
  /\ pc = "done"
  /\ rerunOf = <<>>
  /\ \E f \in 1..Len(cropFiles) :
        /\ img' = cropFiles[f].img
        /\ rerunOf' =
             <<[label |-> cropFiles[f].label,
                members |-> {<<p[1] - cropFiles[f].box.min_y,
                               p[2] - cropFiles[f].box.min_x>> :
                               p \in {q \in DOMAIN labeled_array :
                                        labeled_array[q] = cropFiles[f].label}}]>>
  /\ cropFiles' = <<>>
  /\ binary_array' = <<>>
  /\ labeled_array' = <<>>
  /\ pixelEvents' = <<>>
  /\ current_label' = 0
  /\ scanPos' = 0
  /\ label' = 0
  /\ visited' = {}
  /\ queue' = <<>>
  /\ stdout' = <<>>
  /\ ret' = "running"
  /\ pc' = "image"
  /\ UNCHANGED <<vonly, tonly>>

NextImage ==
  \/ BinarizeImage
  \/ SeedComponent
  \/ FloodStep
  \/ FloodDone
  \/ ReturnLabels
  \/ BeginExtract
  \/ SkipNoise
  \/ SaveCrop
  \/ ReturnFromImage
  \/ RerunOnCrop

SpecImage == InitImage /\ [][NextImage]_vars

\* --------------------------------------------------- raster pipeline claims
\* The raster half of the noise filter: a label has a file exactly when it
\* has at least MinLabelPixels pixels.
RasterThresholdBoundary ==
  pc = "done" =>
    \A k \in 1..current_label :
       (\E f \in 1..Len(cropFiles) : cropFiles[f].label = k)
          <=> Cardinality(Labeled(k)) >= MinLabelPixels

\* C9: running the same strategy again on the extracted contents of one
\* surviving region yields exactly one surviving region, and that region
\* contains every element of the original region.  Stated here for the raster
\* strategy (the padded crop written by extract_characters_from_image); the
\* vector strategy's half is VectorResegmentation.
C9_RasterResegmentation ==
  (pc = "done" /\ rerunOf # <<>>) =>
     /\ Len(cropFiles) = 1
     /\ rerunOf[1].members \subseteq Labeled(cropFiles[1].label)

\* =========================================== extract_characters_from_bitmap
\* The bitmap fallback of the vector script, from the rendered image on
\* (lines 175-230); how the image is obtained (lines 159-173) is part of
\* SpecTemp.  Its input images are every black-and-white image of up to
\* MaxRows x MaxCols pixels, and three images of two rows that hold
\* MinBitmapPixels, MinBitmapPixels + 1 and MinBitmapPixels + 2 dark pixels.
SmallImages ==
  UNION {UNION {{[width |-> w, height |-> h, gray |-> g] :
                    g \in [Coords(h, w) -> {0, 255}]} :
                w \in 1..MaxCols} :
         h \in 1..MaxRows}
WideImages ==
  {[width |-> MinBitmapPixels \div 2 + 1, height |-> 2,
    gray |-> [p \in Coords(2, MinBitmapPixels \div 2 + 1) |->
                IF p[1] = 0 /\ p[2] < k THEN 255 ELSE 0]] : k \in 0..2}

\* lines 176-178: img.point(lambda p: p > threshold and 255), addressed as
\* getpixel((x, y))
Threshold(im) ==
  [q \in (0..(im.width - 1)) \X (0..(im.height - 1)) |->
     IF im.gray[<<q[2], q[1]>>] > BitmapThreshold THEN 255 ELSE 0]

\* lines 184-185: the position of (x, y) in `for y ...: for x ...:`
BitmapIndex(x, y, w) == y * w + x

\* lines 184-187: the pixels at or after position `from` that the scan does
\* not skip
BitmapSeeds(bin, vis, from, w) ==
  {q \in DOMAIN bin :
      /\ BitmapIndex(q[1], q[2], w) >= from
      /\ ~(q \in vis \/ bin[q] > 0)}
NextBitmapSeed(bin, vis, from, w) ==
  CHOOSE q \in BitmapSeeds(bin, vis, from, w) :
     \A r \in BitmapSeeds(bin, vis, from, w) :
        BitmapIndex(q[1], q[2], w) <= BitmapIndex(r[1], r[2], w)

\* line 197: for dx, dy in [(-1, 0), (1, 0), (0, -1), (0, 1)]
BitmapDirections == << <<-1, 0>>, <<1, 0>>, <<0, -1>>, <<0, 1>> >>

\* lines 197-203: the neighbours of (cx, cy) that are marked, queued and
\* collected, in the order of the direction list
BitmapNewPixels(c, bin, vis) ==
  SelectSeq([k \in 1..Len(BitmapDirections) |->
               <<c[1] + BitmapDirections[k][1], c[2] + BitmapDirections[k][2]>>],
            LAMBDA n : n \in DOMAIN bin /\ n \notin vis /\ bin[n] = 0)

\* line 206
EnoughBitmapPixels(n) == n > MinBitmapPixels

\* lines 212-230: character_<index>.png, the component drawn in its
\* bounding box
BitmapPng(ps, index) ==
  LET min_x == SetMin({ps[k][1] : k \in 1..Len(ps)})
      max_x == SetMax({ps[k][1] : k \in 1..Len(ps)})
      min_y == SetMin({ps[k][2] : k \in 1..Len(ps)})
      max_y == SetMax({ps[k][2] : k \in 1..Len(ps)})
  IN [index |-> index,
      width |-> max_x - min_x + 1, height |-> max_y - min_y + 1,
      points |-> {<<ps[k][1] - min_x, ps[k][2] - min_y>> : k \in 1..Len(ps)}]

InitBitmap ==
  /\ TempIdle
  /\ img \in SmallImages \cup WideImages
  /\ binary_array = <<>>
  /\ labeled_array = <<>>
  /\ pixelEvents = <<>>
  /\ current_label = 0
  /\ scanPos = 0
  /\ label = 0
  /\ cropFiles = <<>>
  /\ rerunOf = <<>>
  /\ visited = {}
  /\ queue = <<>>
  /\ stdout = <<>>
  /\ ret = "running"
  /\ pc = "threshold"
  /\ canvas = <<>> /\ rects = <<>> /\ pixels = <<>> /\ gridKeys = <<>> /\ grid = <<>>
  /\ character_pixels = <<>> /\ characters = <<>> /\ components = <<>>
  /\ cellIdx = 1 /\ saveIdx = 1 /\ svgFiles = <<>> /\ pngFiles = <<>>
  /\ binary = <<>> /\ bitmapPos = 0

\* lines 176-182: grayscale, threshold, empty visited set and result list
ThresholdBitmap ==
  /\ pc = "threshold"
  /\ binary' = Threshold(img)
  /\ visited' = {}
  /\ characters' = <<>>
  /\ bitmapPos' = 0
  /\ pc' = "bitmap_scan"
  /\ UNCHANGED <<canvas, rects, pixels, gridKeys, grid, character_pixels,
                 components, cellIdx, saveIdx, svgFiles, pngFiles, queue,
                 stdout, ret>>
  /\ UNCHANGED <<ronly, tonly>>

\* lines 184-192: the scan reaches an unvisited dark pixel
BitmapSeed ==
  /\ pc = "bitmap_scan"
  /\ BitmapSeeds(binary, visited, bitmapPos, img.width) # {}
  /\ LET q == NextBitmapSeed(binary, visited, bitmapPos, img.width)
     IN /\ queue' = <<q>>
        /\ visited' = visited \cup {q}
        /\ character_pixels' = <<q>>
        /\ bitmapPos' = BitmapIndex(q[1], q[2], img.width) + 1
  /\ pc' = "bitmap_flood"
  /\ UNCHANGED <<canvas, rects, pixels, gridKeys, grid, characters, components,
                 cellIdx, saveIdx, svgFiles, pngFiles, binary, stdout, ret>>
  /\ UNCHANGED <<ronly, tonly>>

\* lines 194-203: one iteration of `while queue`
BitmapFloodStep ==
  /\ pc = "bitmap_flood"
  /\ queue # <<>>
  /\ LET new == BitmapNewPixels(Head(queue), binary, visited)
     IN /\ visited' = visited \cup Range(new)
        /\ queue' = Tail(queue) \o new
        /\ character_pixels' = character_pixels \o new
  /\ UNCHANGED <<canvas, rects, pixels, gridKeys, grid, characters, components,
                 cellIdx, saveIdx, svgFiles, pngFiles, binary, bitmapPos,
                 stdout, ret, pc>>
  /\ UNCHANGED <<ronly, tonly>>

\* lines 205-207: the queue ran empty, the component is kept or dropped
BitmapComponentDone ==
  /\ pc = "bitmap_flood"
  /\ queue = <<>>
  /\ characters' = IF EnoughBitmapPixels(Len(character_pixels))
                   THEN Append(characters, character_pixels)
                   ELSE characters
  /\ components' = Append(components,
                          [idx |-> character_pixels,
                           kept |-> EnoughBitmapPixels(Len(character_pixels))])
  /\ pc' = "bitmap_scan"
  /\ UNCHANGED <<canvas, rects, pixels, gridKeys, grid, character_pixels,
                 cellIdx, saveIdx, svgFiles, pngFiles, binary, bitmapPos,
                 visited, queue, stdout, ret>>
  /\ UNCHANGED <<ronly, tonly>>

\* lines 209-230: the scan is over; the count is printed, every kept
\* component is written to its file, the function returns
BitmapSave ==
  /\ pc = "bitmap_scan"
  /\ BitmapSeeds(binary, visited, bitmapPos, img.width) = {}
  /\ bitmapPos' = img.width * img.height
  /\ stdout' = Append(stdout, "Found characters using bitmap approach")
  /\ pngFiles' = [i \in 1..Len(characters) |-> BitmapPng(characters[i], i - 1)]
  /\ ret' = "None"
  /\ pc' = "bitmap_done"
  /\ UNCHANGED <<canvas, rects, pixels, gridKeys, grid, character_pixels,
                 characters, components, cellIdx, saveIdx, svgFiles, binary,
                 visited, queue>>
  /\ UNCHANGED <<ronly, tonly>>

\* The same image is then handed to the raster script:
\* label_connected_components(binary_array) as extract_characters_from_image
\* calls it (extract_characters_simple.py lines 176-188).
LabelSameImage ==
  /\ pc = "bitmap_done"
  /\ StartLabeling(Binarize(img))
  /\ UNCHANGED <<img, label, cropFiles, rerunOf, stdout, ret>>
  /\ UNCHANGED <<vonly, tonly>>

NextBitmap ==
  \/ ThresholdBitmap
  \/ BitmapSeed
  \/ BitmapFloodStep
  \/ BitmapComponentDone
  \/ BitmapSave
  \/ LabelSameImage
  \/ SeedComponent
  \/ FloodStep
  \/ FloodDone
  \/ ReturnLabels

SpecBitmap == InitBitmap /\ [][NextBitmap]_vars

\* --------------------------------------------------- bitmap fallback claims
\* The dark pixels of the bitmap fallback and the candidate component that
\* holds a pixel, both in the (y, x) addressing of the raster script.
BitmapForeground == {<<q[2], q[1]>> : q \in {r \in DOMAIN binary : binary[r] = 0}}
BitmapComponentOf(p) ==
  {<<q[2], q[1]>> :
     q \in UNION {Range(components[c].idx) :
                    c \in {d \in 1..Len(components) :
                             <<p[2], p[1]>> \in Range(components[d].idx)}}}

\* C13: the bitmap fallback labels with 8-connectivity: on one image it and
\* label_connected_components see the same foreground pixels, two foreground
\* pixels that touch (diagonally too) lie in one component of the fallback,
\* and the components of the fallback are the label classes of
\* label_connected_components.
C13_BitmapMatchesLabeler ==
  (pc = "labeled" /\ binary # <<>>) =>
     /\ BitmapForeground = Foreground
     /\ \A p, q \in Foreground : Touching(p, q) => q \in BitmapComponentOf(p)
     /\ \A p \in Foreground : BitmapComponentOf(p) = Labeled(labeled_array[p])

\* ==================================================== temporary bitmaps
\* The four pipeline functions that create a temporary bitmap.  A step that
\* can raise either succeeds or raises; what the step computes is left out,
\* only the files it creates and removes and where control goes are kept.
\* extract_characters_from_image is one step here (modelled in SpecImage).
Entries == {"extract_characters", "extract_from_svg_structure",
            "create_bitmap_from_svg", "extract_characters_from_bitmap"}

\* `import cairosvg`: works, raises ImportError, or raises OSError (no Cairo)
CairoStates == {"ok", "ImportError", "OSError"}

EntryPc(e) ==
  CASE e = "extract_characters" -> "ec_start"
    [] e = "extract_from_svg_structure" -> "ss_import"
    [] e = "create_bitmap_from_svg" -> "cb_draw"
    [] e = "extract_characters_from_bitmap" -> "bm_import"

InitTemp ==
  /\ entry \in Entries
  /\ embedded \in BOOLEAN
  /\ cairo \in CairoStates
  /\ tempFiles = {}
  /\ outcome = "running"
  /\ pc = EntryPc(entry)
  /\ visited = {} /\ queue = <<>> /\ stdout = <<>> /\ ret = "running"
  /\ RasterIdle
  /\ canvas = <<>> /\ rects = <<>> /\ pixels = <<>> /\ gridKeys = <<>> /\ grid = <<>>
  /\ character_pixels = <<>> /\ characters = <<>> /\ components = <<>>
  /\ cellIdx = 1 /\ saveIdx = 1 /\ svgFiles = <<>> /\ pngFiles = <<>>
  /\ binary = <<>> /\ bitmapPos = 0

\* control moves on, inside the running pipeline
Goto(l) ==
  /\ pc' = l
  /\ UNCHANGED <<entry, embedded, cairo, outcome>>

\* the exception leaves the pipeline
Raise ==
  /\ pc' = "done"
  /\ outcome' = "raised"
  /\ UNCHANGED <<entry, embedded, cairo, tempFiles>>

\* the pipeline returns
Return ==
  /\ pc' = "done"
  /\ outcome' = "returned"
  /\ UNCHANGED <<entry, embedded, cairo>>

TempFrame == UNCHANGED <<vonly, ronly, visited, queue, stdout, ret>>

\* ---- extract_characters (extract_characters_simple.py)
\* lines 32-40: the embedded image is decoded and written to temp_image.png
EC_WriteTemp ==
  /\ pc = "ec_start" /\ embedded
  /\ tempFiles' = tempFiles \cup {"temp_image.png"}
  /\ Goto("ec_open")
  /\ TempFrame

\* lines 50-53: no embedded image: extract_from_svg_structure is called last
EC_NoEmbedded ==
  /\ pc = "ec_start" /\ ~embedded
  /\ Goto("ss_import")
  /\ UNCHANGED tempFiles
  /\ TempFrame

\* line 43: Image.open(temp_image_path)
EC_OpenImage ==
  /\ pc = "ec_open"
  /\ \/ Goto("ec_extract") /\ UNCHANGED tempFiles
     \/ Raise
  /\ TempFrame

\* line 46: extract_characters_from_image(img, output_dir)
EC_Extract ==
  /\ pc = "ec_extract"
  /\ \/ Goto("ec_remove") /\ UNCHANGED tempFiles
     \/ Raise
  /\ TempFrame

\* line 49: os.remove(temp_image_path)
EC_Remove ==
  /\ pc = "ec_remove"
  /\ tempFiles' = tempFiles \ {"temp_image.png"}
  /\ Return
  /\ TempFrame

\* ---- extract_from_svg_structure
\* lines 62-63 and 70-79: import cairosvg; both errors are caught
SS_Import ==
  /\ pc = "ss_import"
  /\ IF cairo = "ok" THEN Goto("ss_render") ELSE Goto("cb_draw")
  /\ UNCHANGED tempFiles
  /\ TempFrame

\* lines 64-65: svg2png writes temp.png; any exception is caught (73, 80)
SS_Render ==
  /\ pc = "ss_render"
  /\ \/ tempFiles' = tempFiles \cup {"temp.png"} /\ Goto("ss_open")
     \/ UNCHANGED tempFiles /\ Goto("cb_draw")
  /\ TempFrame

\* line 66: Image.open(png_file); any exception is caught (73, 80)
SS_Open ==
  /\ pc = "ss_open"
  /\ \/ Goto("ss_extract")
     \/ Goto("cb_draw")
  /\ UNCHANGED tempFiles
  /\ TempFrame

\* line 67: extract_characters_from_image; any exception is caught (73, 80)
SS_Extract ==
  /\ pc = "ss_extract"
  /\ \/ Goto("ss_remove")
     \/ Goto("cb_draw")
  /\ UNCHANGED tempFiles
  /\ TempFrame

\* lines 68-69: os.remove(png_file); return
SS_Remove ==
  /\ pc = "ss_remove"
  /\ tempFiles' = tempFiles \ {"temp.png"}
  /\ Return
  /\ TempFrame

\* ---- create_bitmap_from_svg
\* lines 92-154: read the SVG and draw its rects (float() / int(.., 16) raise)
CB_Draw ==
  /\ pc = "cb_draw"
  /\ \/ Goto("cb_save") /\ UNCHANGED tempFiles
     \/ Raise
  /\ TempFrame

\* lines 157-158: img.save(temp_bitmap.png)
CB_Save ==
  /\ pc = "cb_save"
  /\ \/ tempFiles' = tempFiles \cup {"temp_bitmap.png"} /\ Goto("cb_extract")
     \/ Raise
  /\ TempFrame

\* line 161: extract_characters_from_image(img, output_dir)
CB_Extract ==
  /\ pc = "cb_extract"
  /\ \/ Goto("cb_remove") /\ UNCHANGED tempFiles
     \/ Raise
  /\ TempFrame

\* line 164: os.remove(temp_image_path)
CB_Remove ==
  /\ pc = "cb_remove"
  /\ tempFiles' = tempFiles \ {"temp_bitmap.png"}
  /\ Return
  /\ TempFrame

\* ---- extract_characters_from_bitmap (extract_characters.py)
\* lines 159-161 and 165: import cairosvg; only ImportError is caught
BM_Import ==
  /\ pc = "bm_import"
  /\ CASE cairo = "ok" -> Goto("bm_render") /\ UNCHANGED tempFiles
       [] cairo = "ImportError" -> Goto("bm_pil") /\ UNCHANGED tempFiles
       [] cairo = "OSError" -> Raise
  /\ TempFrame

\* lines 162-163: svg2png writes temp.png
BM_Render ==
  /\ pc = "bm_render"
  /\ \/ tempFiles' = tempFiles \cup {"temp.png"} /\ Goto("bm_open")
     \/ Raise
  /\ TempFrame

\* line 164: Image.open(png_file)
BM_Open ==
  /\ pc = "bm_open"
  /\ \/ Goto("bm_label") /\ UNCHANGED tempFiles
     \/ Raise
  /\ TempFrame

\* lines 168-173: Image.open(svg_file); on any exception print and return
BM_PilOpen ==
  /\ pc = "bm_pil"
  /\ \/ Goto("bm_label") /\ UNCHANGED tempFiles
     \/ Return /\ UNCHANGED tempFiles
  /\ TempFrame

\* lines 175-230: threshold, label, save every character; the function ends
BM_Label ==
  /\ pc = "bm_label"
  /\ \/ Return /\ UNCHANGED tempFiles
     \/ Raise
  /\ TempFrame

NextTemp ==
  \/ EC_WriteTemp \/ EC_NoEmbedded \/ EC_OpenImage \/ EC_Extract \/ EC_Remove
  \/ SS_Import \/ SS_Render \/ SS_Open \/ SS_Extract \/ SS_Remove
  \/ CB_Draw \/ CB_Save \/ CB_Extract \/ CB_Remove
  \/ BM_Import \/ BM_Render \/ BM_Open \/ BM_PilOpen \/ BM_Label

SpecTemp == InitTemp /\ [][NextTemp]_vars

\* ---------------------------------------------------- temporary file claims
\* C8: whenever a pipeline run ends, by return or by an exception, none of
\* the temporary bitmaps temp_image.png, temp.png, temp_bitmap.png exists.
C8_TempFilesReleased ==
  pc = "done" => tempFiles = {}

\* the narrower statement: a run that returns normally leaves none behind
TempFilesReleasedOnReturn ==
  (pc = "done" /\ outcome = "returned") => tempFiles = {}

====
